---- MODULE Spec2Model ----
(***************************************************************************)
(* Model of the code-analyzer scripts: the preference store                *)
(* (config_manager.py), its slash-command front end (command_handler.py)   *)
(* and the execution engine (analyze_codebase.py).                         *)
(***************************************************************************)
EXTENDS Integers, Sequences, FiniteSets, TLC

VARIABLES
    file,       \* the config file ~/.claude/code_analyzer_config.json
    dirExists,  \* whether the directory ~/.claude exists
    procs,      \* per process: the handle_command invocation in progress
    calls,      \* number of handle_command invocations started so far
    pre,        \* per process: the file as it was when its invocation started
    preDir,     \* per process: dirExists when its invocation started
    overlap,    \* per process: another set_preferred_tool ran during its own
    args,       \* execute_analysis_with_retry: its arguments
    epc,        \* the statement the engine is at
    attempt,    \* the loop variable of the retry loop
    baseOut,    \* outcome of the last execute_analysis
    optOut,     \* outcome of the last execute_analysis_optimized
    finalOut,   \* outcome of execute_analysis_with_retry
    sideFiles,  \* the files /tmp/code-analysis-<timestamp>.txt
    now,        \* int(time.time())
    log         \* how each optimized run so far ended

storeVars == <<file, dirExists, procs, calls, pre, preDir, overlap>>

engVars == <<args, epc, attempt, baseOut, optOut, finalOut, sideFiles, now, log>>

vars == <<storeVars, engVars>>

(***************************************************************************)
(* Bounds.                                                                 *)
(***************************************************************************)
MaxCalls == 2

Procs == {"p1", "p2"}

(***************************************************************************)
(* Strings.  A Python str is modelled by its name; StrChars gives its      *)
(* characters, so that serialized texts have their real relative lengths.  *)
(***************************************************************************)
KEY == "preferred_tool"

DefaultTool == "qwen"

AllowedTools == {"gemini", "qwen"}

StrChars(s) ==
    CASE s = "preferred_tool" ->
            <<"p","r","e","f","e","r","r","e","d","_","t","o","o","l">>
      [] s = "gemini" -> <<"g","e","m","i","n","i">>
      [] s = "qwen"   -> <<"q","w","e","n">>
      [] s = "vim"    -> <<"v","i","m">>
      [] s = "theme"  -> <<"t","h","e","m","e">>
      [] s = "dark"   -> <<"d","a","r","k">>
      [] s = "abc"    -> <<"a","b","c">>
      [] OTHER        -> <<s>>

\* Python's  a in b  on two strings: a is a contiguous slice of b
IsSubstr(a, b) ==
    \E i \in 0..(Len(StrChars(b)) - Len(StrChars(a))) :
        SubSeq(StrChars(b), i + 1, i + Len(StrChars(a))) = StrChars(a)

(***************************************************************************)
(* JSON values as json.load returns them.  items is a sequence of pairs:   *)
(* <<key, value>> for a dict (in insertion order), <<"", element>> for a   *)
(* list, <<"", s>> for a str, empty for a number.                          *)
(***************************************************************************)
JObject(pairs) == [kind |-> "object", items |-> pairs]

JList(elems) == [kind |-> "list", items |-> [i \in 1..Len(elems) |-> <<"", elems[i]>>]]

JString(s) == [kind |-> "string", items |-> << <<"", s>> >>]

JNumber == [kind |-> "number", items |-> << >>]

EmptyObj == JObject(<< >>)

HasKey(v, k) == \E i \in 1..Len(v.items) : v.items[i][1] = k

Lookup(v, k) == v.items[CHOOSE i \in 1..Len(v.items) : v.items[i][1] = k][2]

\* dict item assignment: an existing key keeps its place, a new one is appended
Assign(v, k, x) ==
    IF HasKey(v, k)
    THEN JObject([i \in 1..Len(v.items) |->
                    IF v.items[i][1] = k THEN <<k, x>> ELSE v.items[i]])
    ELSE JObject(Append(v.items, <<k, x>>))

ToolValues == {"gemini", "qwen", "vim"}

JsonObjects ==
    {EmptyObj, JObject(<< <<"theme", "dark">> >>)}
    \cup {JObject(<< <<KEY, t>> >>) : t \in ToolValues}
    \cup {JObject(<< <<"theme", "dark">>, <<KEY, t>> >>) : t \in ToolValues}

JsonValues ==
    JsonObjects \cup {JNumber, JList(<<KEY>>), JString("abc")}

(***************************************************************************)
(* json.dump(config, f, indent=2) as the characters written.               *)
(***************************************************************************)
RECURSIVE Flatten(_)
Flatten(ss) == IF ss = << >> THEN << >> ELSE Head(ss) \o Flatten(Tail(ss))

DumpStr(s) == <<"\"">> \o StrChars(s) \o <<"\"">>

DumpPair(pr) == <<" ", " ">> \o DumpStr(pr[1]) \o <<":", " ">> \o DumpStr(pr[2])

DumpElem(pr) == <<" ", " ">> \o DumpStr(pr[2])

\* the members of a container, one per line, separated by ",\n"
DumpMembers(v) ==
    Flatten([i \in 1..Len(v.items) |->
        (IF i = 1 THEN <<"\n">> ELSE <<",", "\n">>)
        \o (IF v.kind = "object" THEN DumpPair(v.items[i]) ELSE DumpElem(v.items[i]))])

Dump(v) ==
    CASE v.kind = "number" -> <<"4", "2">>
      [] v.kind = "string" -> DumpStr(v.items[1][2])
      [] v.kind = "list" ->
            IF v.items = << >> THEN <<"[", "]">>
            ELSE <<"[">> \o DumpMembers(v) \o <<"\n", "]">>
      [] v.kind = "object" ->
            IF v.items = << >> THEN <<"{", "}">>
            ELSE <<"{">> \o DumpMembers(v) \o <<"\n", "}">>

\* json.load: the value whose serialization the text is; any other text
\* (empty, truncated, a value followed by extra data) is a JSONDecodeError
Load(text) ==
    IF \E v \in JsonValues : Dump(v) = text
    THEN [ok |-> TRUE, value |-> CHOOSE v \in JsonValues : Dump(v) = text]
    ELSE [ok |-> FALSE, value |-> EmptyObj]

(***************************************************************************)
(* The config file.                                                        *)
(***************************************************************************)
NoFile == [exists |-> FALSE, readable |-> FALSE, writable |-> FALSE, text |-> << >>]

NewFile == [exists |-> TRUE, readable |-> TRUE, writable |-> TRUE, text |-> << >>]

Garbage == <<"{", "\n", " ", " ", "\"", "p">>

InitTexts == {Dump(v) : v \in JsonValues} \cup {<< >>, Garbage}

Perms == {<<TRUE, TRUE>>, <<FALSE, TRUE>>, <<TRUE, FALSE>>}

InitFiles ==
    {NoFile} \cup
    {[exists |-> TRUE, readable |-> pm[1], writable |-> pm[2], text |-> t] :
        pm \in Perms, t \in InitTexts}

(***************************************************************************)
(* ConfigManager.get_preferred_tool.  An outcome is the tool returned, or  *)
(* the exception that leaves the method.                                   *)
(***************************************************************************)
Returned(t) == [raised |-> FALSE, tool |-> t, exc |-> ""]

Raised(e) == [raised |-> TRUE, tool |-> "", exc |-> e]

\* "preferred_tool" in config
KeyIn(v) ==
    CASE v.kind = "number" -> Raised("TypeError")
      [] v.kind = "string" -> Returned(IF IsSubstr(KEY, v.items[1][2]) THEN "in" ELSE "out")
      [] v.kind = "list" ->
            Returned(IF \E i \in 1..Len(v.items) : v.items[i][2] = KEY THEN "in" ELSE "out")
      [] v.kind = "object" -> Returned(IF HasKey(v, KEY) THEN "in" ELSE "out")

\* the condition and return of lines 33-34 on a loaded value
StoredTool(v) ==
    IF KeyIn(v).raised THEN KeyIn(v)
    ELSE IF KeyIn(v).tool = "out" THEN Returned(DefaultTool)
    ELSE IF v.kind # "object" THEN Raised("TypeError")
    ELSE IF Lookup(v, KEY) \in AllowedTools THEN Returned(Lookup(v, KEY))
    ELSE Returned(DefaultTool)

\* faulty variant: a file that does not parse is not caught
GetPreferredToolReadStrict(f) ==
    IF ~f.exists \/ ~f.readable THEN Returned(DefaultTool)
    ELSE IF ~Load(f.text).ok THEN Raised("JSONDecodeError")
    ELSE StoredTool(Load(f.text).value)

\* lines 30-39: open and parse the file; IOError and JSONDecodeError are caught
GetPreferredToolRead(f) ==
    IF ~f.exists \/ ~f.readable THEN Returned(DefaultTool)
    ELSE IF ~Load(f.text).ok THEN Returned(DefaultTool)
    ELSE StoredTool(Load(f.text).value)

\* the whole method on a file nobody else touches meanwhile
GetPreferredTool(f) ==
    IF f.exists THEN GetPreferredToolRead(f) ELSE Returned(DefaultTool)

(***************************************************************************)
(* ConfigManager.set_preferred_tool, step by step.                         *)
(***************************************************************************)
\* faulty variant: the check of line 48 left out
ValidToolAny(t) == TRUE

ValidTool(t) == t \in AllowedTools

\* lines 55-61: the config the update starts from
LoadExisting(f) ==
    IF ~f.exists \/ ~f.readable THEN EmptyObj
    ELSE IF ~Load(f.text).ok THEN EmptyObj
    ELSE Load(f.text).value

\* faulty variant: a fresh dict is written instead of the updated one
MergeToolFresh(config, t) == JObject(<< <<KEY, t>> >>)

\* line 64: config["preferred_tool"] = tool
MergeTool(config, t) == Assign(config, KEY, t)

\* open(config_file, 'w'): the file is created or truncated
Truncate(f) == IF f.exists THEN [f EXCEPT !.text = << >>] ELSE NewFile

\* faulty variant: the file is opened for appending
WriteAppend(text, buf) == text \o buf

\* the buffered text reaches the file at offset 0 when the handle is closed
WriteAt(text, buf) ==
    IF Len(buf) >= Len(text) THEN buf
    ELSE buf \o SubSeq(text, Len(buf) + 1, Len(text))

(***************************************************************************)
(* analyze_codebase.py: the prompt catalog and the command builder.        *)
(* An absent argument (None) and the empty string are both falsy and are   *)
(* both written "".  A formatted string is the sequence of its pieces.     *)
(***************************************************************************)
CatalogScenarios == {"patterns", "architecture", "quality", "review", "audit", "features", "documentation"}

CatalogTargets(s) ==
    CASE s = "patterns" -> {"authentication", "data-flow", "api-usage", "component-structure"}
      [] s = "architecture" -> {"overview", "data-architecture", "integration"}
      [] s = "quality" -> {"performance", "security", "maintainability"}
      [] s = "review" -> {"systematic", "security", "performance", "architecture"}
      [] s = "audit" -> {"dependencies", "testing", "migration"}
      [] s = "features" -> {"trace", "api-endpoints", "react-hooks", "database-queries"}
      [] s = "documentation" -> {"onboarding", "architecture", "api-reference"}
      [] OTHER -> {}

CatalogPrompt(s, t) ==
    CASE s = "patterns" /\ t = "authentication" ->
            "Analyze this codebase and identify all authentication and authorization patterns. Focus on login flows, session management, token handling, access control mechanisms, and security policies."
      [] s = "patterns" /\ t = "data-flow" ->
            "Analyze data flow and state management patterns throughout the codebase. Identify how data is stored, updated, shared, and propagated across components or modules."
      [] s = "patterns" /\ t = "api-usage" ->
            "Catalog all API usage patterns in this application. Include API design, integration patterns, error handling, and how different parts of the system communicate."
      [] s = "patterns" /\ t = "component-structure" ->
            "Examine component and module organization patterns. Identify component hierarchies, module boundaries, reusable patterns, and code organization strategies."
      [] s = "architecture" /\ t = "overview" ->
            "Analyze the overall system architecture. Identify the main components, data flow, service boundaries, integration patterns, and key architectural decisions."
      [] s = "architecture" /\ t = "data-architecture" ->
            "Examine the data architecture including data models, data access patterns, database schemas, and data transformation processes."
      [] s = "architecture" /\ t = "integration" ->
            "Analyze integration patterns with external services, message systems, and communication protocols used throughout the application."
      [] s = "quality" /\ t = "performance" ->
            "Analyze this codebase for potential performance issues. Look for bottlenecks, optimization opportunities, resource usage patterns, and scalability considerations."
      [] s = "quality" /\ t = "security" ->
            "Scan this codebase for potential security vulnerabilities. Look for authentication issues, input validation problems, data protection gaps, and security best practices violations."
      [] s = "quality" /\ t = "maintainability" ->
            "Assess code maintainability by examining code complexity, coupling, cohesion, readability, and adherence to coding standards."
      [] s = "review" /\ t = "systematic" ->
            "Perform a systematic code review. Identify code smells, anti-patterns, technical debt, improvement areas, and adherence to best practices."
      [] s = "review" /\ t = "security" ->
            "Conduct a security-focused code review. Look for potential security vulnerabilities, data handling issues, and access control weaknesses."
      [] s = "review" /\ t = "performance" ->
            "Perform a performance-focused code review. Identify performance bottlenecks, optimization opportunities, and resource usage patterns."
      [] s = "review" /\ t = "architecture" ->
            "Conduct an architecture review. Evaluate architectural decisions, design patterns, service boundaries, and technology choices."
      [] s = "audit" /\ t = "dependencies" ->
            "Analyze all third-party dependencies and libraries. Assess usage patterns, security vulnerabilities, version management, and maintenance considerations."
      [] s = "audit" /\ t = "testing" ->
            "Examine the testing strategy and test coverage. Identify testing patterns, quality gates, and areas that might need more comprehensive testing."
      [] s = "audit" /\ t = "migration" ->
            "Assess migration readiness by evaluating the current technology stack, dependency compatibility, and code health for potential upgrades."
      [] s = "features" /\ t = "trace" ->
            "Trace the implementation of a specific feature throughout the codebase. Show all files involved, data flow, API endpoints, UI components, and how the feature integrates with the rest of the system."
      [] s = "features" /\ t = "api-endpoints" ->
            "Catalog all API endpoints in this application. Include REST routes, GraphQL resolvers, tRPC procedures, their request/response patterns, authentication requirements, and how they're consumed by the frontend."
      [] s = "features" /\ t = "react-hooks" ->
            "Analyze this codebase and identify all React hooks usage patterns. Show how useState, useEffect, useContext, and custom hooks are being used. Include examples of best practices and potential issues."
      [] s = "features" /\ t = "database-queries" ->
            "Find all database query patterns in this codebase. Include SQL queries, ORM usage, connection handling, and any database-related utilities. Show the different approaches used."
      [] s = "documentation" /\ t = "onboarding" ->
            "Analyze this codebase to help create onboarding documentation. Identify key concepts developers need to understand, important files and directories, setup requirements, and the most critical patterns to learn first."
      [] s = "documentation" /\ t = "architecture" ->
            "Generate comprehensive architecture documentation. Identify the main components, data flow, service boundaries, key design decisions, and how different parts of the system interact."
      [] s = "documentation" /\ t = "api-reference" ->
            "Generate API reference documentation. Document all endpoints, their parameters, responses, authentication requirements, and usage examples."

\* lines 79-89
BuildPrompt(scenario, target, context) ==
    LET prompt ==
            IF scenario \in CatalogScenarios
            THEN IF target # "" /\ target \in CatalogTargets(scenario)
                 THEN <<CatalogPrompt(scenario, target)>>
                 ELSE <<"Perform ", scenario,
                        " analysis on this codebase. Provide comprehensive insights and identify key patterns.">>
            ELSE <<"Analyze this codebase focusing on ", scenario,
                   ". Provide comprehensive insights and identify key patterns.">>
    IN  IF context # "" THEN prompt \o <<" Context: ", context>> ELSE prompt

NoCommand == [prefix |-> "", prompt |-> << >>]

UnknownCommand == [prefix |-> "unknown", prompt |-> << >>]

\* lines 96-99
ToolCommand(tool, prompt) ==
    IF tool = "gemini"
    THEN [prefix |-> "geminicli --all-files --yolo -p ", prompt |-> prompt]
    ELSE [prefix |-> "qwen --all-files --yolo -p ", prompt |-> prompt]

\* get_analysis_command: the command, or the exception get_preferred_tool raised
GetAnalysisCommand(a, f) ==
    IF GetPreferredTool(f).raised
    THEN [raised |-> TRUE, exc |-> GetPreferredTool(f).exc, command |-> NoCommand]
    ELSE [raised |-> FALSE, exc |-> "",
          command |-> ToolCommand(GetPreferredTool(f).tool,
                                  BuildPrompt(a.scenario, a.target, a.context))]

(***************************************************************************)
(* Result records.  keys is the set of keys the dict has; a field whose    *)
(* key is absent holds a filler.                                           *)
(***************************************************************************)
Msg(text, n, detail) == [text |-> text, n |-> n, detail |-> detail]

NoMsg == Msg("", 0, "")

NoRetryInfo == [n |-> -1, suffix |-> ""]

BaseKeys == {"success", "returncode", "stdout", "stderr", "command"}

OptKeys == {"success", "summary", "full_output_path", "total_lines", "command", "returncode"}

BaseResult(success, returncode, stdout, stderr, command) ==
    [keys |-> BaseKeys, success |-> success, returncode |-> returncode,
     stdout |-> stdout, stderr |-> stderr, command |-> command,
     summary |-> << >>, full_output_path |-> -1, total_lines |-> -1,
     retry_info |-> NoRetryInfo]

\* the failure dict of lines 171-177, 179-185, 223-229, 297-303 and 306-312
Failure(stderr, command) == BaseResult(FALSE, -1, << >>, stderr, command)

NoResult == [BaseResult(FALSE, 0, << >>, NoMsg, NoCommand) EXCEPT !.keys = {}]

ReturnOf(r) == [raised |-> FALSE, exc |-> "", result |-> r]

RaiseOf(e) == [raised |-> TRUE, exc |-> e, result |-> NoResult]

NoOutcome == [raised |-> FALSE, exc |-> "", result |-> NoResult]

(***************************************************************************)
(* execute_analysis.                                                       *)
(***************************************************************************)
DefaultTimeout == 300

SubprocessRun(kind, rc, stdout, stderr, exc) ==
    [kind |-> kind, rc |-> rc, stdout |-> stdout, stderr |-> stderr, exc |-> exc]

\* lines 146-185.  c is what get_analysis_command did, run what
\* subprocess.run did.  When get_analysis_command raises, command is not yet
\* bound and the handler of lines 178-185 raises UnboundLocalError itself.
BaseRun(c, run) ==
    IF c.raised THEN RaiseOf("UnboundLocalError")
    ELSE CASE run.kind = "exit" ->
                ReturnOf(BaseResult(run.rc = 0, run.rc, run.stdout, run.stderr, c.command))
           [] run.kind = "timeout" ->
                ReturnOf(Failure(Msg("Command timed out after seconds", DefaultTimeout, ""),
                                 c.command))
           [] run.kind = "fault" ->
                ReturnOf(Failure(Msg("Execution failed: ", 0, run.exc), c.command))

(***************************************************************************)
(* execute_analysis_optimized: the summary of lines 231-253.  A text is    *)
(* the sequence of its characters; the words the code looks for are single *)
(* elements.                                                               *)
(***************************************************************************)
ScanLimit == 50

KeepFirst == 5

SummaryCap == 30

ShortSummary == 10

PadLines == 20

RECURSIVE SplitFrom(_, _)
\* the lines of text after cur, the line being read
SplitFrom(text, cur) ==
    IF text = << >> THEN <<cur>>
    ELSE IF Head(text) = "\n" THEN <<cur>> \o SplitFrom(Tail(text), << >>)
    ELSE SplitFrom(Tail(text), Append(cur, Head(text)))

\* str.split('\n')
Split(text) == SplitFrom(text, << >>)

RECURSIVE Join(_)
\* '\n'.join(lines)
Join(lines) ==
    IF lines = << >> THEN << >>
    ELSE IF Len(lines) = 1 THEN lines[1]
    ELSE lines[1] \o <<"\n">> \o Join(Tail(lines))

Prefix(seq, n) == SubSeq(seq, 1, IF n < Len(seq) THEN n ELSE Len(seq))

\* faulty variant: a '#' anywhere in the line marks it
LooksLikeHeaderAnyHash(line) ==
    \/ \E i \in 1..Len(line) : line[i] \in {"#", "Summary", "Key", "Important"}

\* lines 238-242
LooksLikeHeader(line) ==
    \/ (line # << >> /\ line[1] = "#")
    \/ \E i \in 1..Len(line) : line[i] \in {"Summary", "Key", "Important"}
    \/ \E i \in 1..(Len(line) - 1) : line[i] = "#" /\ line[i + 1] = "#"

RECURSIVE Extract(_, _, _)
\* lines 236-246: the loop from 0-based index i on, kept being what is kept so far
Extract(lines, i, kept) ==
    IF i >= Len(lines) THEN kept
    ELSE IF LooksLikeHeader(lines[i + 1]) \/ i < KeepFirst
         THEN IF Len(kept) + 1 >= SummaryCap THEN Append(kept, lines[i + 1])
              ELSE Extract(lines, i + 1, Append(kept, lines[i + 1]))
         ELSE Extract(lines, i + 1, kept)

RECURSIVE ExtractIdx(_, _, _)
\* the same loop, keeping the 0-based indices of the lines it keeps
ExtractIdx(lines, i, kept) ==
    IF i >= Len(lines) THEN kept
    ELSE IF LooksLikeHeader(lines[i + 1]) \/ i < KeepFirst
         THEN IF Len(kept) + 1 >= SummaryCap THEN Append(kept, i)
              ELSE ExtractIdx(lines, i + 1, Append(kept, i))
         ELSE ExtractIdx(lines, i + 1, kept)

\* the indices of the lines the loop of lines 236-246 selects
SelectedIdx(stdout) == ExtractIdx(Prefix(Split(stdout), ScanLimit), 0, << >>)

SummaryLines(stdout) == Extract(Prefix(Split(stdout), ScanLimit), 0, << >>)

\* faulty variant: a short summary is replaced by the prefix slice
SummaryReplaced(stdout) ==
    IF Len(SummaryLines(stdout)) < ShortSummary
    THEN Join(Prefix(Prefix(Split(stdout), PadLines), SummaryCap))
    ELSE Join(SummaryLines(stdout))

\* lines 248-253
Summary(stdout) ==
    IF Len(SummaryLines(stdout)) < ShortSummary
    THEN Join(Prefix(SummaryLines(stdout) \o Prefix(Split(stdout), PadLines), SummaryCap))
    ELSE Join(SummaryLines(stdout))

\* lines 255-262
OptimizedResult(base, path) ==
    [keys |-> OptKeys, success |-> TRUE, returncode |-> base.returncode,
     stdout |-> << >>, stderr |-> NoMsg, command |-> base.command,
     summary |-> Summary(base.stdout), full_output_path |-> path,
     total_lines |-> Len(Split(base.stdout)), retry_info |-> NoRetryInfo]

\* faulty variant: the failure dict keeps the captured output
WriteFailureKeepsOutput(base, exc) ==
    [Failure(Msg("Failed to save output file: ", 0, exc), base.command)
        EXCEPT !.stdout = base.stdout]

\* lines 223-229
WriteFailure(base, exc) ==
    Failure(Msg("Failed to save output file: ", 0, exc), base.command)

\* lines 213-221: the side file once written (complete), or as the failed
\* write left it
SideFile(path, base, complete, by) ==
    [path |-> path, command |-> base.command,
     stdout |-> IF complete THEN base.stdout ELSE << >>,
     stderr |-> IF complete THEN base.stderr ELSE NoMsg,
     complete |-> complete, by |-> by]

\* open(output_file, 'w') ... : what the file system holds afterwards
WriteSideFile(files, path, base, how, by) ==
    IF how = "open_failed" THEN files
    ELSE {sf \in files : sf.path # path}
            \cup {SideFile(path, base, how = "ok", by)}

\* lines 203-262.  b is the outcome of execute_analysis, how the fate of the
\* write of the side file
OptimizedRun(b, how, path) ==
    IF b.raised THEN b
    ELSE IF ~b.result.success THEN b
    ELSE IF how # "ok" THEN ReturnOf(WriteFailure(b.result, "OSError"))
    ELSE ReturnOf(OptimizedResult(b.result, path))

(***************************************************************************)
(* execute_analysis_with_retry.                                            *)
(***************************************************************************)
SleepSeconds == 2

\* faulty variant: the count is one too high
RetryInfoNext(k) == [n |-> k + 1, suffix |-> IF k + 1 > 1 THEN "s" ELSE ""]

\* line 286
RetryInfo(k) == [n |-> k, suffix |-> IF k > 1 THEN "s" ELSE ""]

\* lines 285-287
Annotate(r, k) ==
    IF k > 0
    THEN [r EXCEPT !.keys = r.keys \cup {"retry_info"}, !.retry_info = RetryInfo(k)]
    ELSE r

\* lines 297-303
ExhaustedByFault(mr, exc, last) ==
    ReturnOf(Failure(Msg("Analysis failed after retries: ", mr, exc), UnknownCommand))

\* faulty variant: the failure of the last attempt is returned
ExhaustedReturnsLast(mr, last) == last

\* lines 306-312; last is the outcome of the last attempt, which is not used
Exhausted(mr, last) ==
    ReturnOf(Failure(Msg("Analysis failed after retries", mr, ""), UnknownCommand))

EngineOff ==
    /\ args = [scenario |-> "", target |-> "", context |-> "", max_retries |-> 0]
    /\ epc = "off"
    /\ attempt = 0
    /\ baseOut = NoOutcome
    /\ optOut = NoOutcome
    /\ finalOut = NoOutcome
    /\ sideFiles = {}
    /\ now = 0
    /\ log = << >>

(***************************************************************************)
(* handle_command, one invocation per process at a time.                   *)
(***************************************************************************)
ToolArgs == {"gemini", "qwen", "vim"}

IdleProc ==
    [pc |-> "idle", n |-> 0, cmd |-> "none", tool |-> "", config |-> EmptyObj,
     buf |-> << >>, setResult |-> "none", ret |-> Returned("")]

InSet(q) == procs[q].pc \in {"s_exists", "s_read", "s_open", "s_write"}

CanStart(p) == procs[p].pc \in {"idle", "done"} /\ calls < MaxCalls

StartRecord(p, c, t) ==
    [IdleProc EXCEPT !.n = calls + 1, !.cmd = c, !.tool = t]

\* command_handler.py 26-29 and config_manager.py 48-52
HandleTool(p, t) ==
    /\ CanStart(p)
    /\ calls' = calls + 1
    /\ pre' = [pre EXCEPT ![p] = file]
    /\ preDir' = [preDir EXCEPT ![p] = dirExists]
    /\ IF ValidTool(t)
       THEN /\ procs' = [procs EXCEPT ![p] =
                            [StartRecord(p, "tool", t) EXCEPT !.pc = "s_exists"]]
            /\ dirExists' = TRUE
            /\ overlap' = [q \in Procs |->
                             IF q = p THEN \E r \in Procs \ {p} : InSet(r)
                             ELSE overlap[q] \/ InSet(q)]
       ELSE /\ procs' = [procs EXCEPT ![p] =
                            [StartRecord(p, "tool", t) EXCEPT
                                !.pc = "done", !.setResult = "ValueError"]]
            /\ overlap' = [overlap EXCEPT ![p] = FALSE]
            /\ UNCHANGED dirExists
    /\ UNCHANGED <<file, engVars>>

\* line 56
SetExists(p) ==
    /\ procs[p].pc = "s_exists"
    /\ IF file.exists
       THEN procs' = [procs EXCEPT ![p].pc = "s_read"]
       ELSE procs' = [procs EXCEPT ![p].pc = "s_open",
                                   ![p].config = MergeTool(EmptyObj, procs[p].tool)]
    /\ UNCHANGED <<file, dirExists, calls, pre, preDir, overlap, engVars>>

\* lines 57-64; item assignment on a value that is no dict raises TypeError
SetRead(p) ==
    /\ procs[p].pc = "s_read"
    /\ IF LoadExisting(file).kind = "object"
       THEN procs' = [procs EXCEPT ![p].pc = "s_open",
                                   ![p].config = MergeTool(LoadExisting(file), procs[p].tool)]
       ELSE procs' = [procs EXCEPT ![p].pc = "done", ![p].setResult = "TypeError"]
    /\ UNCHANGED <<file, dirExists, calls, pre, preDir, overlap, engVars>>

\* line 68; opening a file that may not be written raises IOError (lines 70-71)
SetOpen(p) ==
    /\ procs[p].pc = "s_open"
    /\ IF file.exists /\ ~file.writable
       THEN /\ procs' = [procs EXCEPT ![p].pc = "done", ![p].setResult = "IOError"]
            /\ UNCHANGED file
       ELSE /\ procs' = [procs EXCEPT ![p].pc = "s_write",
                                      ![p].buf = Dump(procs[p].config)]
            /\ file' = Truncate(file)
    /\ UNCHANGED <<dirExists, calls, pre, preDir, overlap, engVars>>

\* line 69 and the close of the with block; then command_handler.py 30-33
SetWrite(p) ==
    /\ procs[p].pc = "s_write"
    /\ file' = [file EXCEPT !.text = WriteAt(file.text, procs[p].buf)]
    /\ procs' = [procs EXCEPT ![p].pc = "g_exists", ![p].setResult = "ok"]
    /\ UNCHANGED <<dirExists, calls, pre, preDir, overlap, engVars>>

\* command_handler.py 43-44: the status command
HandleStatus(p) ==
    /\ CanStart(p)
    /\ calls' = calls + 1
    /\ pre' = [pre EXCEPT ![p] = file]
    /\ preDir' = [preDir EXCEPT ![p] = dirExists]
    /\ overlap' = [overlap EXCEPT ![p] = FALSE]
    /\ procs' = [procs EXCEPT ![p] = [StartRecord(p, "status", "") EXCEPT !.pc = "g_exists"]]
    /\ UNCHANGED <<file, dirExists, engVars>>

\* get_preferred_tool line 29
GetExists(p) ==
    /\ procs[p].pc = "g_exists"
    /\ IF file.exists
       THEN procs' = [procs EXCEPT ![p].pc = "g_read"]
       ELSE procs' = [procs EXCEPT ![p].pc = "done", ![p].ret = Returned(DefaultTool)]
    /\ UNCHANGED <<file, dirExists, calls, pre, preDir, overlap, engVars>>

\* get_preferred_tool lines 30-39
GetRead(p) ==
    /\ procs[p].pc = "g_read"
    /\ procs' = [procs EXCEPT ![p].pc = "done", ![p].ret = GetPreferredToolRead(file)]
    /\ UNCHANGED <<file, dirExists, calls, pre, preDir, overlap, engVars>>

InitStore ==
    /\ file \in InitFiles
    /\ dirExists = file.exists
    /\ procs = [p \in Procs |-> IdleProc]
    /\ calls = 0
    /\ pre = [p \in Procs |-> NoFile]
    /\ preDir = [p \in Procs |-> FALSE]
    /\ overlap = [p \in Procs |-> FALSE]
    /\ EngineOff

NextStore ==
    \E p \in Procs :
        \/ \E t \in ToolArgs : HandleTool(p, t)
        \/ HandleStatus(p)
        \/ SetExists(p)
        \/ SetRead(p)
        \/ SetOpen(p)
        \/ SetWrite(p)
        \/ GetExists(p)
        \/ GetRead(p)

SpecStore == InitStore /\ [][NextStore]_vars

(***************************************************************************)
(* The execution engine: one call of execute_analysis_with_retry.          *)
(***************************************************************************)
MaxRetries == 2

StoreOff ==
    /\ dirExists = file.exists
    /\ procs = [p \in Procs |-> IdleProc]
    /\ calls = 0
    /\ pre = [p \in Procs |-> NoFile]
    /\ preDir = [p \in Procs |-> FALSE]
    /\ overlap = [p \in Procs |-> FALSE]

Stdouts == {<< >>, <<"#", "t", "\n", "x", "\n", "Key">>}

SubprocessOutcomes ==
    {SubprocessRun("exit", 0, so, se, "") :
        so \in Stdouts, se \in {NoMsg, Msg("warning", 0, "")}}
    \cup {SubprocessRun("exit", 1, << >>, Msg("error", 0, ""), ""),
          SubprocessRun("timeout", 0, << >>, NoMsg, ""),
          SubprocessRun("fault", 0, << >>, NoMsg, "OSError")}

WriteFates == {"ok", "open_failed", "write_failed"}

EngineInputs ==
    {[scenario |-> "architecture", target |-> "overview", context |-> ""],
     [scenario |-> "nosuch", target |-> "", context |-> "ctx"]}

\* the config files the engine is run with: none, one for each tool, and
\* one for each way get_preferred_tool fails
EngineFiles ==
    {NoFile} \cup
    {[NewFile EXCEPT !.text = t] :
        t \in {Dump(JObject(<< <<KEY, "gemini">> >>)),
               Dump(JObject(<< <<"theme", "dark">>, <<KEY, "qwen">> >>)),
               Dump(JNumber), Garbage}}

\* faulty variant: one attempt too many
MoreAttemptsOneMore(k, mr) == k < mr + 2

\* line 280: for attempt in range(max_retries + 1)
MoreAttempts(k, mr) == k < mr + 1

\* how an optimized run ended, for the log
AttemptKind(b, how) ==
    IF b.raised THEN "buildfault"
    ELSE IF ~b.result.success THEN "failed"
    ELSE IF how # "ok" THEN "writefail"
    ELSE "ok"

\* line 280, and lines 305-312 when the loop is exhausted
RetryLoop ==
    /\ epc = "loop"
    /\ IF MoreAttempts(attempt, args.max_retries)
       THEN /\ epc' = "base"
            /\ UNCHANGED finalOut
       ELSE /\ epc' = "done"
            /\ finalOut' = Exhausted(args.max_retries, optOut)
    /\ UNCHANGED <<args, attempt, baseOut, optOut, sideFiles, now, log, storeVars>>

\* execute_analysis, lines 146-185
ExecuteAnalysis ==
    /\ epc = "base"
    /\ \E run \in SubprocessOutcomes :
          baseOut' = BaseRun(GetAnalysisCommand(args, file), run)
    /\ epc' = "opt"
    /\ UNCHANGED <<args, attempt, optOut, finalOut, sideFiles, now, log, storeVars>>

\* execute_analysis_optimized after its call of execute_analysis, lines 205-262
ExecuteAnalysisOptimized ==
    /\ epc = "opt"
    /\ \E how \in WriteFates :
          /\ optOut' = OptimizedRun(baseOut, how, now)
          /\ sideFiles' = IF ~baseOut.raised /\ baseOut.result.success
                          THEN WriteSideFile(sideFiles, now, baseOut.result, how, attempt)
                          ELSE sideFiles
          /\ log' = Append(log, AttemptKind(baseOut, how))
    /\ epc' = "retry"
    /\ UNCHANGED <<args, attempt, baseOut, finalOut, now, storeVars>>

\* lines 284-303: what the loop body does with the outcome of the optimized run
RetryHandle ==
    /\ epc = "retry"
    /\ IF optOut.raised
       THEN IF attempt < args.max_retries
            THEN /\ now' = now + SleepSeconds
                 /\ attempt' = attempt + 1
                 /\ epc' = "loop"
                 /\ UNCHANGED finalOut
            ELSE /\ finalOut' = ExhaustedByFault(args.max_retries, optOut.exc, optOut)
                 /\ epc' = "done"
                 /\ UNCHANGED <<now, attempt>>
       ELSE IF optOut.result.success
            THEN /\ finalOut' = ReturnOf(Annotate(optOut.result, attempt))
                 /\ epc' = "done"
                 /\ UNCHANGED <<now, attempt>>
            ELSE /\ now' = IF attempt < args.max_retries THEN now + SleepSeconds ELSE now
                 /\ attempt' = attempt + 1
                 /\ epc' = "loop"
                 /\ UNCHANGED finalOut
    /\ UNCHANGED <<args, baseOut, optOut, sideFiles, log, storeVars>>

InitEngine ==
    /\ file \in EngineFiles
    /\ StoreOff
    /\ \E a \in EngineInputs, mr \in 0..MaxRetries :
          args = [scenario |-> a.scenario, target |-> a.target,
                  context |-> a.context, max_retries |-> mr]
    /\ epc = "loop"
    /\ attempt = 0
    /\ baseOut = NoOutcome
    /\ optOut = NoOutcome
    /\ finalOut = NoOutcome
    /\ sideFiles = {}
    /\ now = 0
    /\ log = << >>

NextEngine ==
    \/ RetryLoop
    \/ ExecuteAnalysis
    \/ ExecuteAnalysisOptimized
    \/ RetryHandle

SpecEngine == InitEngine /\ [][NextEngine]_vars

(***************************************************************************)
(* The execute-optimized action of main (lines 369-371): one call of       *)
(* execute_analysis_optimized, on outputs long enough to meet every limit  *)
(* of the summary.  An output is a run of plain lines, a run of marked     *)
(* lines, a gap of plain lines and a last run of marked lines.             *)
(***************************************************************************)
MaxHead == 6

MaxMarked == 26

GapStep == 9

MaxGaps == 5

MaxTail == 1

RECURSIVE Rep(_, _)
Rep(line, n) == IF n <= 0 THEN << >> ELSE <<line>> \o Rep(line, n - 1)

\* <<a plain line, a marked line>>
LineKinds ==
    {<< <<"x">>, <<"#", "t">> >>,
     << <<"x">>, <<"x", "Summary">> >>,
     << <<"x">>, <<"Key", "x">> >>,
     << <<"x">>, <<"x", "Important">> >>,
     << <<"x">>, <<"x", "#", "#">> >>,
     << << >>, <<"#", "t">> >>,
     << <<"x", "#">>, <<"#">> >>}

LongStdouts ==
    {Join(Rep(k[1], a) \o Rep(k[2], b) \o Rep(k[1], g * GapStep) \o Rep(k[2], d)) :
        k \in LineKinds, a \in 0..MaxHead, b \in 0..MaxMarked,
        g \in 0..MaxGaps, d \in 0..MaxTail}

LongOutcomes ==
    {SubprocessRun("exit", 0, so, NoMsg, "") : so \in LongStdouts}

\* execute_analysis, lines 146-185, when the tool prints one of LongStdouts
ExecuteAnalysisLong ==
    /\ epc = "base"
    /\ \E run \in LongOutcomes :
          baseOut' = BaseRun(GetAnalysisCommand(args, file), run)
    /\ epc' = "opt"
    /\ UNCHANGED <<args, attempt, optOut, finalOut, sideFiles, now, log, storeVars>>

InitOptimized ==
    /\ file = NoFile
    /\ StoreOff
    /\ args = [scenario |-> "architecture", target |-> "overview",
               context |-> "", max_retries |-> 0]
    /\ epc = "base"
    /\ attempt = 0
    /\ baseOut = NoOutcome
    /\ optOut = NoOutcome
    /\ finalOut = NoOutcome
    /\ sideFiles = {}
    /\ now = 0
    /\ log = << >>

NextOptimized ==
    \/ ExecuteAnalysisLong
    \/ ExecuteAnalysisOptimized

SpecOptimized == InitOptimized /\ [][NextOptimized]_vars

(***************************************************************************)
(* The generate action of main (lines 350-353): one call of                *)
(* get_analysis_command, for every scenario and target of the catalog and  *)
(* for ones that are not in it.                                            *)
(***************************************************************************)
BuilderScenarios == CatalogScenarios \cup {"nosuch"}

\* "" stands for an absent target or context: None and '' are both falsy
BuilderTargets == UNION {CatalogTargets(sc) : sc \in CatalogScenarios} \cup {"", "nosuch"}

BuilderContexts == {"", "ctx"}

\* lines 350-353
Generate ==
    /\ epc = "generate"
    /\ LET c == GetAnalysisCommand(args, file)
       IN  finalOut' = IF c.raised THEN RaiseOf(c.exc)
                       ELSE ReturnOf([NoResult EXCEPT !.command = c.command])
    /\ epc' = "done"
    /\ UNCHANGED <<args, attempt, baseOut, optOut, sideFiles, now, log, storeVars>>

InitBuilder ==
    /\ file \in EngineFiles
    /\ StoreOff
    /\ \E sc \in BuilderScenarios, t \in BuilderTargets, c \in BuilderContexts :
          args = [scenario |-> sc, target |-> t, context |-> c, max_retries |-> 0]
    /\ epc = "generate"
    /\ attempt = 0
    /\ baseOut = NoOutcome
    /\ optOut = NoOutcome
    /\ finalOut = NoOutcome
    /\ sideFiles = {}
    /\ now = 0
    /\ log = << >>

NextBuilder == Generate

SpecBuilder == InitBuilder /\ [][NextBuilder]_vars

(***************************************************************************)
(* Properties of the preference store.                                     *)
(***************************************************************************)
\* what remains of a set_preferred_tool call once it has returned
SetDone(p) == procs[p].cmd = "tool" /\ procs[p].pc \in {"g_exists", "g_read", "done"}

\* the file holds a JSON object (whether or not it may be read)
HoldsObject(f) == f.exists /\ Load(f.text).ok /\ Load(f.text).value.kind = "object"

OtherKeys(v) == {v.items[i][1] : i \in 1..Len(v.items)} \ {KEY}

\* v and w agree on every key but preferred_tool
SameOtherKeys(v, w) ==
    /\ OtherKeys(v) = OtherKeys(w)
    /\ \A k \in OtherKeys(v) : Lookup(v, k) = Lookup(w, k)

\* get() as section 4.1 of the specification words it
StatedGet(f) ==
    IF /\ HoldsObject(f)
       /\ f.readable
       /\ HasKey(Load(f.text).value, KEY)
       /\ Lookup(Load(f.text).value, KEY) \in AllowedTools
    THEN Returned(Lookup(Load(f.text).value, KEY))
    ELSE Returned(DefaultTool)

\* C5: get_preferred_tool returns the stored value when the file exists, is
\* valid JSON with an allowed preferred_tool, and the default "qwen", without
\* raising, for every other state of the file.  Stated for a status command
\* that ran alone, so that the file it read is the file it started from.
C5_GetStoredOrDefault ==
    \A p \in Procs :
        (procs[p].cmd = "status" /\ procs[p].pc = "done" /\ calls = 1)
            => procs[p].ret = StatedGet(pre[p])

\* C6: set_preferred_tool with a tool that is neither "gemini" nor "qwen"
\* ends in ValueError in the step that starts it, and that step creates no
\* directory and leaves the file, hence the answer of get, as they were.
C6_InvalidToolRejectedBeforeIO ==
    [][\A p \in Procs :
          (procs'[p].n # procs[p].n /\ procs'[p].cmd = "tool"
                /\ procs'[p].tool \notin AllowedTools)
            => /\ procs'[p].pc = "done"
               /\ procs'[p].setResult = "ValueError"
               /\ dirExists' = dirExists
               /\ file' = file
               /\ GetPreferredTool(file') = GetPreferredTool(file)]_vars

C6_Witness ==
    \E p \in Procs :
        /\ procs[p].setResult = "ValueError"
        /\ procs[p].tool = "vim"
        /\ file = pre[p]
        /\ GetPreferredTool(file) = Returned("gemini")

\* the step in which the set call of p writes and returns, no other set call
\* having run since it started, on a file that held a JSON object
LoneSetReturns(p) ==
    /\ procs[p].pc = "s_write"
    /\ ~overlap[p]
    /\ HoldsObject(pre[p])

SetPostcondition(p) ==
    /\ HoldsObject(file')
    /\ GetPreferredTool(file') = Returned(procs[p].tool)
    /\ SameOtherKeys(Load(pre[p].text).value, Load(file'.text).value)

\* C7 as stated: with no concurrent writer a successful set(t) on a file
\* holding a JSON object changes only preferred_tool: get then returns t and
\* every other key keeps its value.
C7_SetChangesOnlyTool ==
    [][\A p \in Procs :
          (LoneSetReturns(p) /\ procs'[p].setResult = "ok") => SetPostcondition(p)]_vars

\* C7 amended: the same, for a file that holds a JSON object and can be read.
C7_SetChangesOnlyToolReadable ==
    [][\A p \in Procs :
          (LoneSetReturns(p) /\ pre[p].readable /\ procs'[p].setResult = "ok")
            => SetPostcondition(p)]_vars

\* a second successful set in a row, on a file with another key, followed by
\* the status read of the same command
C7_Witness ==
    \E p \in Procs :
        /\ procs[p].pc = "done" /\ procs[p].setResult = "ok" /\ ~overlap[p]
        /\ calls = 2 /\ procs[p].n = 2
        /\ HoldsObject(pre[p]) /\ pre[p].readable
        /\ HasKey(Load(pre[p].text).value, "theme")
        /\ HasKey(Load(pre[p].text).value, KEY)
        /\ Lookup(Load(pre[p].text).value, KEY) # procs[p].tool
        /\ procs[p].ret = Returned(procs[p].tool)
        /\ Load(file.text).value = MergeTool(Load(pre[p].text).value, procs[p].tool)

\* two set calls that ran concurrently, with different tools, and both returned
BothSetsDone ==
    /\ \A p \in Procs : SetDone(p) /\ procs[p].setResult = "ok" /\ overlap[p]
    /\ procs["p1"].tool # procs["p2"].tool

\* C8 as stated: once two concurrent set calls have both completed, the
\* stored preferred_tool is one of the two values that were set.
C8_StoredIsOneOfTheTwo ==
    BothSetsDone =>
        /\ HoldsObject(file)
        /\ HasKey(Load(file.text).value, KEY)
        /\ Lookup(Load(file.text).value, KEY) \in {procs[p].tool : p \in Procs}

\* C8 amended: once both have completed the file holds the text one of the
\* two calls wrote, or that text followed by the rest of the longer text of
\* the other call; whenever it parses, its preferred_tool is one of the two.
C8_LastWriterOrOverlay ==
    BothSetsDone =>
        /\ file.text \in {WriteAt(procs[p].buf, procs[q].buf) : p, q \in Procs}
        /\ Load(file.text).ok =>
              /\ HoldsObject(file)
              /\ Lookup(Load(file.text).value, KEY) \in {procs[p].tool : p \in Procs}

\* both calls reported success and the file keeps one of the two values only
C8_Witness ==
    /\ BothSetsDone
    /\ HoldsObject(file)
    /\ Lookup(Load(file.text).value, KEY) = procs["p1"].tool

(***************************************************************************)
(* Properties of the execution engine.                                     *)
(***************************************************************************)
Last(seq) == seq[Len(seq)]

Returns(o) == ~o.raised /\ o.result.keys # {}

\* the optimized runs started so far
RunsStarted == Len(log) + (IF epc \in {"base", "opt"} THEN 1 ELSE 0)

\* the statements still to run, at most: four per attempt left
Rank ==
    IF epc = "done" THEN 0
    ELSE 4 * (args.max_retries + 1 - attempt)
            + (CASE epc = "loop" -> 4 [] epc = "base" -> 3 [] epc = "opt" -> 2
                 [] epc = "retry" -> 1 [] OTHER -> 0)

\* C1: execute_analysis_with_retry terminates (it is never stuck before it
\* returns and every step brings the return nearer), after at most
\* max_retries+1 optimized runs, and starts no run after the first one that
\* succeeded.
C1_RetryBoundedAndTerminates ==
    /\ [](/\ RunsStarted <= args.max_retries + 1
          /\ \A i \in 1..Len(log) :
                log[i] = "ok" => (i = Len(log) /\ epc \in {"retry", "done"})
          /\ Rank >= 0
          /\ epc = "done" \/ ENABLED NextEngine)
    /\ [][Rank' < Rank]_vars

C1_Witness ==
    /\ epc = "done"
    /\ args.max_retries = 2
    /\ Len(log) = 3
    /\ log[1] = "failed"
    /\ log[3] = "ok"

\* C2: a successful return at attempt index k is the result of the optimized
\* run of that attempt, with retry_info exactly when k > 0, and retry_info
\* then states the count k.
C2_SuccessIsAttemptResult ==
    (epc = "done" /\ Returns(finalOut) /\ finalOut.result.success) =>
        LET k == Len(log) - 1
            r == finalOut.result
        IN  /\ Last(log) = "ok"
            /\ Returns(optOut)
            /\ [r EXCEPT !.keys = r.keys \ {"retry_info"}, !.retry_info = NoRetryInfo]
                  = optOut.result
            /\ ("retry_info" \in r.keys) <=> (k > 0)
            /\ k > 0 => r.retry_info = [n |-> k, suffix |-> IF k > 1 THEN "s" ELSE ""]
            /\ k = 0 => r.retry_info = NoRetryInfo

\* two failures, then a success, with max_retries = 2
C2_Witness ==
    /\ epc = "done"
    /\ args.max_retries = 2
    /\ log = <<"failed", "failed", "ok">>
    /\ finalOut.result.success
    /\ finalOut.result.retry_info = [n |-> 2, suffix |-> "s"]

\* C3: when none of the max_retries+1 attempts succeeds the retry run returns,
\* and never raises, a dict with success=false, returncode=-1,
\* command="unknown" and a stderr that tells of the exhausted retries; it is
\* not the failure result of the last attempt.
C3_ExhaustionResult ==
    (epc = "done" /\ \A i \in 1..Len(log) : log[i] # "ok") =>
        /\ Len(log) = args.max_retries + 1
        /\ Returns(finalOut)
        /\ finalOut.result.keys = BaseKeys
        /\ ~finalOut.result.success
        /\ finalOut.result.returncode = -1
        /\ finalOut.result.command = UnknownCommand
        /\ finalOut.result.stderr.text
              \in {"Analysis failed after retries", "Analysis failed after retries: "}
        /\ finalOut.result.stderr.n = args.max_retries
        /\ finalOut.result # optOut.result

C3_Witness ==
    /\ epc = "done"
    /\ log = <<"failed", "writefail", "failed">>
    /\ ~finalOut.result.success
    /\ optOut.result.returncode = 1

\* C4: execute_analysis never lets a fault reach its caller: whatever is
\* raised inside it, the building of the command included, it returns a dict
\* with success=false, returncode=-1 and the message of the fault in stderr.
C4_BaseRunNeverRaises ==
    epc = "opt" =>
        /\ Returns(baseOut)
        /\ baseOut.result.keys = BaseKeys
        /\ GetAnalysisCommand(args, file).raised =>
              /\ ~baseOut.result.success
              /\ baseOut.result.returncode = -1
              /\ baseOut.result.stderr.text = "Execution failed: "

\* C9: when the base run fails (non-zero exit, timeout or fault) the
\* optimized run returns the failure result of the base run unchanged and
\* writes no side file; only an attempt whose base run succeeded writes one.
C9_FailurePassedThrough ==
    /\ (epc = "retry" /\ Last(log) \in {"failed", "buildfault"}) =>
          /\ Returns(baseOut)
          /\ ~baseOut.result.success
          /\ optOut = baseOut
          /\ \A sf \in sideFiles : sf.by # attempt
    /\ \A sf \in sideFiles : log[sf.by + 1] \in {"ok", "writefail"}

\* C10: when the base run succeeds and the write of the side file fails, the
\* optimized run returns a failure dict (success=false, returncode=-1, empty
\* stdout, stderr telling of the write, the executed command) without the
\* analysis output and without a summary; the retry loop takes it for a failed
\* attempt: while attempts remain it goes on to another attempt, which
\* executes the subprocess again.
C10_WriteFailureIsFailedAttempt ==
    /\ (epc = "retry" /\ Last(log) = "writefail") =>
          /\ Returns(optOut)
          /\ optOut.result.keys = BaseKeys
          /\ ~optOut.result.success
          /\ optOut.result.returncode = -1
          /\ optOut.result.stdout = << >>
          /\ optOut.result.stderr.text = "Failed to save output file: "
          /\ optOut.result.command = baseOut.result.command
          /\ optOut.result.summary = << >>
    /\ \A i \in 1..Len(log) :
          (log[i] = "writefail" /\ i <= args.max_retries) =>
              IF i < Len(log) THEN log[i + 1] \in {"failed", "writefail", "ok"}
              ELSE epc \in {"retry", "loop", "base", "opt"}

\* a write failure after an output that was not empty, then an attempt that succeeds
C10_Witness ==
    /\ epc = "done"
    /\ Len(log) >= 2
    /\ log[1] = "writefail"
    /\ log[2] = "ok"
    /\ finalOut.result.success
    /\ finalOut.result.total_lines = 3

(***************************************************************************)
(* Properties of the summary of execute_analysis_optimized.                *)
(***************************************************************************)
\* execute_analysis_optimized returned its success dict
OptimizedSucceeded == epc = "retry" /\ log # << >> /\ Last(log) = "ok"

\* the lines of the stdout that was summarised
StdoutLines == Split(baseOut.result.stdout)

\* the lines of the returned summary
SummaryOut == Split(optOut.result.summary)

\* the 0-based indices the selection loop captured
Selected == SelectedIdx(baseOut.result.stdout)

Least(a, b) == IF a < b THEN a ELSE b

\* a header or marker line, in the words of the specification
StatedMarker(line) ==
    \/ (Len(line) >= 1 /\ line[1] = "#")
    \/ \E i \in 1..Len(line) : line[i] = "Summary" \/ line[i] = "Key" \/ line[i] = "Important"
    \/ \E i \in 2..Len(line) : line[i - 1] = "#" /\ line[i] = "#"

\* the number of newline-delimited segments of a text
Segments(text) == Cardinality({i \in 1..Len(text) : text[i] = "\n"}) + 1

C13_Padding ==
    OptimizedSucceeded =>
        LET lines == StdoutLines
            out == SummaryOut
            sel == Selected
        IN  IF Len(sel) < 10
            THEN /\ Len(out) = Least(30, Len(sel) + Least(20, Len(lines)))
                 /\ \A j \in 1..Len(out) :
                       out[j] = IF j <= Len(sel) THEN lines[sel[j] + 1]
                                ELSE lines[j - Len(sel)]
            ELSE /\ Len(out) = Len(sel)
                 /\ \A j \in 1..Len(out) : out[j] = lines[sel[j] + 1]

\* fewer than 10 captured lines of a stdout of more than 20 lines
C13_Witness ==
    /\ OptimizedSucceeded
    /\ LET lines == StdoutLines
           out == SummaryOut
           sel == Selected
       IN  /\ Len(sel) < 10
           /\ Len(sel) > 5
           /\ Len(lines) > 20
           /\ Len(out) = Len(sel) + 20

\* 10 or more captured lines, left alone
C13_WitnessUnpadded ==
    /\ OptimizedSucceeded
    /\ LET out == SummaryOut
           sel == Selected
       IN  Len(sel) >= 10 /\ Len(out) = Len(sel)

(***************************************************************************)
(* Properties of get_analysis_command.                                     *)
(***************************************************************************)
\* the prompt pieces of the built command, without the context suffix
PromptBody ==
    LET p == finalOut.result.command.prompt
    IN  IF args.context # "" THEN SubSeq(p, 1, Len(p) - 2) ELSE p

\* the prompt is the catalog string or a fallback naming the scenario, and
\* the only change to it is the suffix " Context: <context>"
PromptAsStated ==
    LET p == finalOut.result.command.prompt
        inCatalog == /\ args.scenario \in CatalogScenarios
                     /\ args.target \in CatalogTargets(args.scenario)
    IN  /\ IF args.context # ""
           THEN /\ Len(p) >= 2
                /\ p[Len(p) - 1] = " Context: "
                /\ p[Len(p)] = args.context
           ELSE \A i \in 1..Len(p) : p[i] # " Context: "
        /\ IF inCatalog
           THEN PromptBody = <<CatalogPrompt(args.scenario, args.target)>>
           ELSE /\ \E i \in 1..Len(PromptBody) : PromptBody[i] = args.scenario
                /\ \A sc \in CatalogScenarios : \A t \in CatalogTargets(sc) :
                      PromptBody # <<CatalogPrompt(sc, t)>>

\* C12: for every pair of the catalog the prompt of the built command is the
\* exact catalog string, for every other scenario or target it is a fallback
\* string containing the scenario name, the only modification is the suffix
\* " Context: <context>" appended iff the context is not empty, and the
\* builder does not raise.
C12_BuilderPrompt ==
    epc = "done" => ~finalOut.raised /\ PromptAsStated

\* whenever the builder returns a command, its prompt is as stated
PromptWhenReturned ==
    epc = "done" /\ ~finalOut.raised => PromptAsStated

(***************************************************************************)
(* Properties of a get_preferred_tool call beside a set_preferred_tool     *)
(* call.                                                                   *)
(***************************************************************************)
\* p ran the one status command and q the one tool command there have been
GetBesideSet(p, q) ==
    /\ p # q
    /\ calls = 2
    /\ procs[p].cmd = "status"
    /\ procs[q].cmd = "tool"
    /\ procs[q].tool \in AllowedTools

\* the config file as it was before either call
FileBefore(p, q) == IF procs[p].n < procs[q].n THEN pre[p] ELSE pre[q]

\* the file validly stores a tool
ValidlyStores(f) ==
    /\ HoldsObject(f)
    /\ f.readable
    /\ HasKey(Load(f.text).value, KEY)
    /\ Lookup(Load(f.text).value, KEY) \in AllowedTools

OldTool(p, q) == Lookup(Load(FileBefore(p, q).text).value, KEY)

\* set_preferred_tool of q has opened the file for writing, which empties it
HasTruncated(q) ==
    /\ procs[q].pc \in {"s_write", "g_exists", "g_read", "done"}
    /\ procs[q].setResult \notin {"ValueError", "IOError"}

\* C14 as stated: a get_preferred_tool call beside a set_preferred_tool(new)
\* call on a file that validly stores old returns old or new, never a third
\* value.
C14_GetReturnsOldOrNew ==
    \A p \in Procs, q \in Procs :
        /\ GetBesideSet(p, q)
        /\ ValidlyStores(FileBefore(p, q))
        /\ procs[p].pc = "done"
        => procs[p].ret \in {Returned(OldTool(p, q)), Returned(procs[q].tool)}

\* C14 amended: the call returns old, new or the default; it returns a value
\* that is neither old nor new only once the set call has opened the file
\* for writing, and it does not raise.
C14_GetReturnsOldNewOrDefault ==
    \A p \in Procs, q \in Procs :
        /\ GetBesideSet(p, q)
        /\ ValidlyStores(FileBefore(p, q))
        /\ procs[p].pc = "done"
        => /\ procs[p].ret \in {Returned(OldTool(p, q)), Returned(procs[q].tool),
                                Returned(DefaultTool)}
           /\ procs[p].ret \notin {Returned(OldTool(p, q)), Returned(procs[q].tool)}
                 => HasTruncated(q)

\* the file stored gemini, gemini is being set, and the get call that read
\* the file between the open and the write returned qwen
C14_Witness ==
    \E p \in Procs, q \in Procs :
        /\ GetBesideSet(p, q)
        /\ ValidlyStores(FileBefore(p, q))
        /\ OldTool(p, q) = "gemini"
        /\ procs[q].tool = "gemini"
        /\ procs[q].pc = "s_write"
        /\ procs[p].pc = "done"
        /\ procs[p].ret = Returned("qwen")

====
